---- MODULE Spec2Model ----
(***************************************************************************)
(* The file-transfer negotiation of magic-wormhole.rs (src/transfer.rs):   *)
(* the receiver (request_file, ReceiveRequest::accept and ::reject) run    *)
(* against the encrypted channel, the transit connector and the bulk       *)
(* transfer delegate.  The peer is either an arbitrary party (Spec) or the *)
(* sender state machine of the design document (PairSpec).                 *)
(***************************************************************************)
EXTENDS Integers, Sequences, FiniteSets, TLC

\* ------------------------------------------------------------------ bounds
\* Longest advertised file or folder name, in characters.
MaxNameLen == 2
\* Largest advertised size; sizes range over 0..MaxSize.
MaxSize == 1

\* ------------------------------------------------------------------- paths
\* A path is a sequence of characters (a PathBuf's bytes).
PathChars == {"a", ".", "/"}

Names == UNION {[1..n -> PathChars] : n \in 0..MaxNameLen}

Sizes == 0..MaxSize

\* The '/'-separated segments of p whose first character is at offset >= i,
\* each with the offset (1-based) of its first character.
RECURSIVE SegsFrom(_, _, _, _)
SegsFrom(p, i, start, acc) ==
    IF i > Len(p)
    THEN Append(acc, [start |-> start, len |-> i - start])
    ELSE IF p[i] = "/"
         THEN SegsFrom(p, i + 1, i + 1, Append(acc, [start |-> start, len |-> i - start]))
         ELSE SegsFrom(p, i + 1, start, acc)

Segments(p) == SegsFrom(p, 1, 1, <<>>)

SegText(p, s) == SubSeq(p, s.start, s.start + s.len - 1)

\* Path::components: empty segments are skipped, and so is "." unless it is
\* the first segment of the path.  The indexes of the segments that are
\* components other than the root.
ComponentIdx(p) ==
    LET segs == Segments(p)
    IN  {k \in 1..Len(segs) :
            /\ segs[k].len > 0
            /\ ~(SegText(p, segs[k]) = <<".">> /\ k > 1)}

\* Path::file_name: the last component when it is a normal one; NoSeg when
\* the path is empty, is the root, or ends in "." or "..".
NoSeg == [start |-> 0, len |-> 0]

FileNameSeg(p) ==
    LET idx == ComponentIdx(p)
    IN  IF idx = {} THEN NoSeg
        ELSE LET k == CHOOSE x \in idx : \A y \in idx : y <= x
                 s == Segments(p)[k]
                 t == SegText(p, s)
             IN  IF t = <<".">> \/ t = <<".", ".">> THEN NoSeg ELSE s

\* The offset in the name f of its last '.', 0 when it has none.
LastDot(f) ==
    LET dots == {i \in 1..Len(f) : f[i] = "."}
    IN  IF dots = {} THEN 0 ELSE CHOOSE i \in dots : \A j \in dots : j <= i

\* rsplit_file_at_dot: the length of the file stem of the name f.  A name
\* with no dot, or whose only dot is its first character, is all stem.
StemLen(f) == IF LastDot(f) <= 1 THEN Len(f) ELSE LastDot(f) - 1

\* Path::extension of the name f: what follows the last dot; NoExt if none.
NoExt == <<"/">>

ExtensionOfName(f) ==
    IF LastDot(f) <= 1 THEN NoExt ELSE SubSeq(f, LastDot(f) + 1, Len(f))

Extension(p) ==
    IF FileNameSeg(p) = NoSeg THEN NoExt
    ELSE ExtensionOfName(SegText(p, FileNameSeg(p)))

ZipExt == <<"z", "i", "p">>

\* PathBuf::set_extension(ext): does nothing when the path has no file name;
\* otherwise the buffer is cut right after the file stem and "." ext added.
SetExtension(p, ext) ==
    LET s == FileNameSeg(p)
    IN  IF s = NoSeg THEN p
        ELSE SubSeq(p, 1, s.start + StemLen(SegText(p, s)) - 1) \o <<".">> \o ext

\* ---------------------------------------------------------------- messages
\* The text of a message on the encrypted channel: one structured object
\* whose single key is its tag.  "garbage" is text that is not such an
\* object; "future" is an object whose key this generation does not know.
Wire(tag, sub, name, size, numbytes, text) ==
    [tag |-> tag, sub |-> sub, name |-> name, size |-> size,
     numbytes |-> numbytes, text |-> text]

ErrTexts == {"transfer rejected", "peer gave up"}

WireMsgs ==
    {Wire("transit", "", <<>>, 0, 0, "")}
    \cup {Wire("offer", "file", n, s, 0, "") : n \in Names, s \in Sizes}
    \cup {Wire("offer", "directory", n, z, b, "") : n \in Names, z \in Sizes, b \in Sizes}
    \cup {Wire("offer", "message", <<>>, 0, 0, "hello")}
    \cup {Wire("answer", "file_ack", <<>>, 0, 0, "ok")}
    \cup {Wire("error", "", <<>>, 0, 0, t) : t \in ErrTexts}
    \cup {Wire("future", "", <<>>, 0, 0, "")}
    \cup {Wire("garbage", "", <<>>, 0, 0, "")}

\* A decoded PeerMessage (or the failure to decode one).
PeerMessage(kind, offer, name, size, numbytes, text) ==
    [kind |-> kind, offer |-> offer, name |-> name, size |-> size,
     numbytes |-> numbytes, text |-> text]

PMTransit == PeerMessage("Transit", "", <<>>, 0, 0, "")

PMFileAck(msg) == PeerMessage("Answer", "", <<>>, 0, 0, msg)

PMError(text) == PeerMessage("Error", "", <<>>, 0, 0, text)

PMOfferFile(n, s) == PeerMessage("Offer", "File", n, s, 0, "")

PMOfferDirectory(n, z, b) == PeerMessage("Offer", "Directory", n, z, b, "")

DecodeError == PeerMessage("DecodeError", "", <<>>, 0, 0, "")

\* serde_json::from_slice::<PeerMessage>: an unknown key decodes to the
\* Unknown variant, an offer of an unknown kind to Offer(Unknown) with its
\* payload dropped; text that is no object fails to decode.
Decode(w) ==
    CASE w.tag = "transit" -> PMTransit
      [] w.tag = "offer" /\ w.sub = "file" -> PMOfferFile(w.name, w.size)
      [] w.tag = "offer" /\ w.sub = "directory" ->
            PMOfferDirectory(w.name, w.size, w.numbytes)
      [] w.tag = "offer" -> PeerMessage("Offer", "Unknown", <<>>, 0, 0, "")
      [] w.tag = "answer" -> PMFileAck(w.text)
      [] w.tag = "error" -> PMError(w.text)
      [] w.tag = "garbage" -> DecodeError
      [] OTHER -> PeerMessage("Unknown", "", <<>>, 0, 0, "")

\* Wormhole::send_json's encoding of the messages this module sends.
Encode(m) ==
    CASE m.kind = "Transit" -> Wire("transit", "", <<>>, 0, 0, "")
      [] m.kind = "Answer" -> Wire("answer", "file_ack", <<>>, 0, 0, m.text)
      [] m.kind = "Error" -> Wire("error", "", <<>>, 0, 0, m.text)
      [] m.kind = "Offer" /\ m.offer = "File" ->
            Wire("offer", "file", m.name, m.size, 0, "")
      [] m.kind = "Offer" /\ m.offer = "Directory" ->
            Wire("offer", "directory", m.name, m.size, m.numbytes, "")
      [] OTHER -> Wire("future", "", <<>>, 0, 0, "")

\* ------------------------------------------------------------------ errors
\* A TransferError: its variant and the text it carries (the peer's text of
\* PeerError, the expected message of ProtocolUnexpectedMessage).
Err(kind, text) == [kind |-> kind, text |-> text]

NoResult == Err("None", "")

OkResult == Err("Ok", "")

\* TransferError::unexpected_message(expected, got).
UnexpectedMessage(expected) == Err("ProtocolUnexpectedMessage", expected)

\* format!("{}", error): the Display text of the errors that are notified.
ErrorText(e) ==
    CASE e.kind = "ProtocolUnexpectedMessage" /\ e.text = "transit" ->
            "Unexpected message (protocol error): Expected 'transit'"
      [] e.kind = "ProtocolUnexpectedMessage" /\ e.text = "offer" ->
            "Unexpected message (protocol error): Expected 'offer'"
      [] e.kind = "ProtocolUnexpectedMessage" ->
            "Unexpected message (protocol error): Expected 'answer'"
      [] e.kind = "TransitConnect" -> "Error while establishing transit connection"
      [] e.kind = "Transit" -> "transit failure"
      [] OTHER -> "error"

\* A slip in reject(): another reason than the fixed one.
RejectReasonOther == "peer gave up"

\* The fixed reason reject() gives the peer.
RejectReason == "transfer rejected"

\* A slip in accept(): the answer is sent as an Error message.
AcceptAckAsError == PMError("ok")

\* The acknowledgment accept() sends: PeerMessage::file_ack("ok").
AcceptAck == PMFileAck("ok")

\* A slip: the notification is sent with `?`, so its failure is returned.
AfterNotifyPropagating(error, sendOk) ==
    IF sendOk THEN error ELSE [kind |-> "Wormhole", text |-> ""]

\* `let _ = wormhole.send_json(Error(..)).await; bail!(error)`: the result of
\* the notification is dropped and the original error is returned.
AfterNotify(error, sendOk) == error

\* A slip: an unexpected first message is returned without telling the peer.
MatchTransitSilent(m) ==
    CASE m.kind = "Transit" -> [next |-> "continue", err |-> NoResult, notify |-> FALSE]
      [] m.kind = "Error" ->
            [next |-> "bail", err |-> Err("PeerError", m.text), notify |-> FALSE]
      [] OTHER ->
            [next |-> "bail", err |-> UnexpectedMessage("transit"), notify |-> FALSE]

\* The match on the first message request_file receives.
MatchTransit(m) ==
    CASE m.kind = "Transit" -> [next |-> "continue", err |-> NoResult, notify |-> FALSE]
      [] m.kind = "Error" ->
            [next |-> "bail", err |-> Err("PeerError", m.text), notify |-> FALSE]
      [] OTHER ->
            [next |-> "bail", err |-> UnexpectedMessage("transit"), notify |-> TRUE]

\* The display name and expected length request_file takes from an offer.
FileFields(filename, filesize) == [filename |-> filename, filesize |-> filesize]

\* A slip: the folder's original size is taken as the expected length.
DirectoryFieldsNumbytes(dirname, zipsize, numbytes) ==
    [filename |-> SetExtension(dirname, ZipExt), filesize |-> numbytes]

DirectoryFields(dirname, zipsize, numbytes) ==
    [filename |-> SetExtension(dirname, ZipExt), filesize |-> zipsize]

\* No ReceiveRequest.
NoFields == [filename |-> <<>>, filesize |-> -1]


\* A slip: an offer of an unsupported variant is reported to the peer like an
\* unexpected message.
MatchOfferNotifyingUnsupported(m) ==
    CASE m.kind = "Offer" /\ m.offer = "File" ->
            [next |-> "continue", err |-> NoResult, notify |-> FALSE,
             fields |-> FileFields(m.name, m.size)]
      [] m.kind = "Offer" /\ m.offer = "Directory" ->
            [next |-> "continue", err |-> NoResult, notify |-> FALSE,
             fields |-> DirectoryFields(m.name, m.size, m.numbytes)]
      [] m.kind = "Offer" ->
            [next |-> "bail", err |-> Err("UnsupportedOffer", ""), notify |-> TRUE,
             fields |-> NoFields]
      [] m.kind = "Error" ->
            [next |-> "bail", err |-> Err("PeerError", m.text), notify |-> FALSE,
             fields |-> NoFields]
      [] OTHER ->
            [next |-> "bail", err |-> UnexpectedMessage("offer"), notify |-> TRUE,
             fields |-> NoFields]

\* A slip: an offer of an unsupported variant is let through.
MatchOfferAcceptingUnknown(m) ==
    CASE m.kind = "Offer" ->
            [next |-> "continue", err |-> NoResult, notify |-> FALSE,
             fields |-> IF m.offer = "Directory"
                        THEN DirectoryFields(m.name, m.size, m.numbytes)
                        ELSE FileFields(m.name, m.size)]
      [] m.kind = "Error" ->
            [next |-> "bail", err |-> Err("PeerError", m.text), notify |-> FALSE,
             fields |-> NoFields]
      [] OTHER ->
            [next |-> "bail", err |-> UnexpectedMessage("offer"), notify |-> TRUE,
             fields |-> NoFields]

\* A slip: the peer's Error at the offer step is answered with an Error.
MatchOfferEchoing(m) ==
    CASE m.kind = "Offer" /\ m.offer = "File" ->
            [next |-> "continue", err |-> NoResult, notify |-> FALSE,
             fields |-> FileFields(m.name, m.size)]
      [] m.kind = "Offer" /\ m.offer = "Directory" ->
            [next |-> "continue", err |-> NoResult, notify |-> FALSE,
             fields |-> DirectoryFields(m.name, m.size, m.numbytes)]
      [] m.kind = "Offer" ->
            [next |-> "bail", err |-> Err("UnsupportedOffer", ""), notify |-> FALSE,
             fields |-> NoFields]
      [] OTHER ->
            [next |-> "bail",
             err |-> IF m.kind = "Error" THEN Err("PeerError", m.text)
                                         ELSE UnexpectedMessage("offer"),
             notify |-> TRUE, fields |-> NoFields]

\* The match on the second message request_file receives.
MatchOffer(m) ==
    CASE m.kind = "Offer" /\ m.offer = "File" ->
            [next |-> "continue", err |-> NoResult, notify |-> FALSE,
             fields |-> FileFields(m.name, m.size)]
      [] m.kind = "Offer" /\ m.offer = "Directory" ->
            [next |-> "continue", err |-> NoResult, notify |-> FALSE,
             fields |-> DirectoryFields(m.name, m.size, m.numbytes)]
      [] m.kind = "Offer" ->
            [next |-> "bail", err |-> Err("UnsupportedOffer", ""), notify |-> FALSE,
             fields |-> NoFields]
      [] m.kind = "Error" ->
            [next |-> "bail", err |-> Err("PeerError", m.text), notify |-> FALSE,
             fields |-> NoFields]
      [] OTHER ->
            [next |-> "bail", err |-> UnexpectedMessage("offer"), notify |-> TRUE,
             fields |-> NoFields]

\* A slip: a decode failure is reported as the generic protocol error.
FromJsonErrorGeneric == [kind |-> "Protocol", text |-> ""]

\* `serde_json::from_slice(..)?`: a decode failure becomes ProtocolJson.
FromJsonError == Err("ProtocolJson", "")

\* `wormhole.send_json(..).await?`, `.receive().await?`, `.close().await?`.
FromWormholeError == Err("Wormhole", "")

\* -------------------------------------------- TransitAck and AppVersion
\* The strings a TransitAck is built from.
AckStrings == {"ok", "deadbeaf", "", "ack", "sha256", "nope"}

NoAck == [ack |-> "none", sha256 |-> "none"]

\* A slip: the two arguments are stored in each other's field.
TransitAckNewSwapped(msg, sha256) == [ack |-> sha256, sha256 |-> msg]

\* TransitAck::new(msg, sha256).
TransitAckNew(msg, sha256) == [ack |-> msg, sha256 |-> sha256]

\* #[serde(rename_all = "kebab-case")] on the field identifiers of TransitAck.
KebabCase(field) ==
    CASE field = "ack" -> "ack"
      [] field = "sha256" -> "sha256"
      [] OTHER -> "other"

\* TransitAck::serialize_vec / serialize: the derived Serialize writes one
\* key and value per field, in declaration order (json!(self) keeps its keys
\* sorted, which is the same order).
TransitAckSerialize(t) ==
    << <<KebabCase("ack"), t.ack>>, <<KebabCase("sha256"), t.sha256>> >>

\* A JSON value: its shape, the keys of an object, the length of an array.
JsonValue(shape, keys, len) == [shape |-> shape, keys |-> keys, len |-> len]

JsonObject(keys) == JsonValue("object", keys, 0)

\* The fields a peer of a later generation may advertise.
VersionKeys == {"abilities", "transfer-v2"}

\* The values a peer can advertise as its app version.
PeerVersions ==
    {JsonObject(k) : k \in SUBSET VersionKeys}
    \cup {JsonValue("array", {}, n) : n \in 0..1}
    \cup {JsonValue(sh, {}, 0) : sh \in {"null", "string", "number", "bool"}}

\* AppVersion::new(): the record has no fields.
AppVersionNew == [fields |-> {}]

\* serde_json::from_value::<AppVersion>: the derived Deserialize of a struct
\* with no fields takes any object (unknown keys are ignored) and the empty
\* array; any other value is a decode error.
DecodeAppVersion(v) ==
    IF v.shape = "object" \/ (v.shape = "array" /\ v.len = 0)
    THEN [ok |-> TRUE, version |-> AppVersionNew]
    ELSE [ok |-> FALSE, version |-> AppVersionNew]

\* AppVersion::supports_v2.
SupportsV2(version) == FALSE

NoCall == [result |-> NoResult, delegate |-> "none", v2 |-> FALSE]

\* A slip: the reserved branch is live and asks the advertised value itself.
SendFileOutV2(v) ==
    IF ~DecodeAppVersion(v).ok
    THEN [result |-> [kind |-> "ProtocolJson", text |-> ""], delegate |-> "none", v2 |-> FALSE]
    ELSE [result |-> [kind |-> "None", text |-> ""],
          delegate |-> IF "transfer-v2" \in v.keys THEN "v2::send_file" ELSE "v1::send_file",
          v2 |-> "transfer-v2" \in v.keys]

\* send_file: decode the peer's app version (`?`), then hand over to
\* v1::send_file, whose result is send_file's.
SendFileOut(v) ==
    LET d == DecodeAppVersion(v)
    IN  IF ~d.ok
        THEN [result |-> FromJsonError, delegate |-> "none", v2 |-> FALSE]
        ELSE [result |-> NoResult, delegate |-> "v1::send_file",
              v2 |-> SupportsV2(d.version)]

\* ------------------------------------------------------------------- state
VARIABLES
    rpc,          \* where the receiver is: the await it is about to make
    reqResult,    \* what request_file returned (NoResult while it runs)
    req,          \* the ReceiveRequest's filename and filesize
    op,           \* "none", or the method that consumed the request
    opResult,     \* what accept or reject returned
    rcvSent,      \* the receiver's send_json calls, in order
    rcvGot,       \* the messages the receiver's receive() calls returned
    rcvConnects,  \* follower_connect calls
    rcvCloses,    \* the outcomes of the receiver's close() calls
    recvExpected, \* the lengths handed to v1::tcp_file_receive
    toRcv,        \* channel: messages on their way to the receiver
    toSnd,        \* channel: messages on their way to the sender
    fault,        \* some channel, transit or transfer call has failed
    spc,          \* where the sender is
    sndResult,    \* what the sender's call returned
    sndOffer,     \* the offer the sender makes
    sndSent,      \* the sender's send calls, in order
    sndGot,       \* the messages the sender received
    sndConnects,  \* leader_connect calls
    sndCloses,    \* the outcomes of the sender's close() calls
    ackArgs,      \* the two strings given to TransitAck::new
    ackRecord,    \* the TransitAck built from them (NoAck before)
    ackJson,      \* its serialization: the fields written, in order
    peerVersion,  \* wormhole.peer_version, the peer's app-version value
    sendFileOut   \* what send_file did with it (NoCall before)

rcvVars == <<rpc, reqResult, req, op, opResult, rcvSent, rcvGot, rcvConnects,
             rcvCloses, recvExpected>>

sndVars == <<spc, sndResult, sndOffer, sndSent, sndGot, sndConnects, sndCloses>>

fnVars == <<ackArgs, ackRecord, ackJson, peerVersion, sendFileOut>>

vars == <<rcvVars, sndVars, toRcv, toSnd, fault, fnVars>>

\* The display names the sender advertises (what it is called does not bear
\* on the negotiation; the receiver's handling of names is exercised by the
\* arbitrary peer).
SenderNames == {<<"a">>}

\* What the sender may offer: a file, or a folder as an archive.
SenderOffers ==
    {PMOfferFile(n, s) : n \in SenderNames, s \in Sizes}
    \cup {PMOfferDirectory(n, z, b) : n \in SenderNames, z \in Sizes, b \in Sizes}

NoOffer == PeerMessage("None", "", <<>>, 0, 0, "")

\* The state when request_file (and the sender's call) is entered.
TransferInit ==
    /\ rpc = "init"
    /\ reqResult = NoResult
    /\ req = NoFields
    /\ op = "none"
    /\ opResult = NoResult
    /\ rcvSent = <<>>
    /\ rcvGot = <<>>
    /\ rcvConnects = 0
    /\ rcvCloses = <<>>
    /\ recvExpected = <<>>
    /\ toRcv = <<>>
    /\ toSnd = <<>>
    /\ fault = FALSE
    /\ spc = "init"
    /\ sndResult = NoResult
    /\ sndOffer = NoOffer
    /\ sndSent = <<>>
    /\ sndGot = <<>>
    /\ sndConnects = 0
    /\ sndCloses = <<>>

Init ==
    /\ TransferInit
    /\ ackArgs = <<"ok", "deadbeaf">>
    /\ ackRecord = NoAck
    /\ ackJson = <<>>
    /\ peerVersion = JsonObject({})
    /\ sendFileOut = NoCall

\* ------------------------------------------------------- receiver: helpers
\* One send_json call of the receiver: logged, and delivered when it succeeds.
\* cause is the error a notification reports (NoResult for other messages),
\* seen the number of messages the receiver had received when it sent.
RcvSend(m, ok, by, cause, seen) ==
    /\ rcvSent' = Append(rcvSent, [msg |-> m, ok |-> ok, by |-> by, cause |-> cause,
                                   seen |-> seen])
    /\ toSnd' = IF ok THEN Append(toSnd, Encode(m)) ELSE toSnd

\* request_file returns the error e.
ReqBail(e) ==
    /\ reqResult' = e
    /\ rpc' = "done"

\* accept or reject returns r.
OpReturn(r) ==
    /\ opResult' = r
    /\ rpc' = "done"

\* ---------------------------------------------------- receiver: request_file
\* transit::init(ALL_ABILITIES, None, relay_hints).await?
ReqInit ==
    /\ rpc = "init"
    /\ \E ok \in BOOLEAN :
        /\ IF ok THEN rpc' = "send_transit" /\ reqResult' = reqResult
                 ELSE ReqBail(Err("IO", ""))
        /\ fault' = (fault \/ ~ok)
    /\ UNCHANGED <<req, op, opResult, rcvSent, rcvGot, rcvConnects, rcvCloses,
                   recvExpected, toRcv, toSnd, sndVars, fnVars>>

\* wormhole.send_json(&PeerMessage::transit(..)).await?
ReqSendTransit ==
    /\ rpc = "send_transit"
    /\ \E ok \in BOOLEAN :
        /\ RcvSend(PMTransit, ok, "request_file", NoResult, Len(rcvGot))
        /\ IF ok THEN rpc' = "recv_transit" /\ reqResult' = reqResult
                 ELSE ReqBail(FromWormholeError)
        /\ fault' = (fault \/ ~ok)
    /\ UNCHANGED <<req, op, opResult, rcvGot, rcvConnects, rcvCloses,
                   recvExpected, toRcv, sndVars, fnVars>>

\* wormhole.receive().await? fails: the channel error is returned.
ReqReceiveFails ==
    /\ rpc \in {"recv_transit", "recv_offer"}
    /\ ReqBail(FromWormholeError)
    /\ fault' = TRUE
    /\ UNCHANGED <<req, op, opResult, rcvSent, rcvGot, rcvConnects, rcvCloses,
                   recvExpected, toRcv, toSnd, sndVars, fnVars>>

\* A slip in request_file: the peer's Transit is answered with the receiver's
\* own Transit once more before the offer is awaited.
ReqRecvTransitReplying ==
    /\ rpc = "recv_transit"
    /\ toRcv # <<>>
    /\ LET m == Decode(Head(toRcv))
           r == MatchTransit(m)
       IN  /\ toRcv' = Tail(toRcv)
           /\ rcvGot' = Append(rcvGot, m)
           /\ IF m = DecodeError
              THEN /\ ReqBail(FromJsonError)
                   /\ UNCHANGED <<rcvSent, toSnd, fault>>
              ELSE IF r.next = "continue"
              THEN /\ rpc' = "recv_offer"
                   /\ RcvSend(PMTransit, TRUE, "request_file", NoResult, Len(rcvGot) + 1)
                   /\ UNCHANGED <<reqResult, fault>>
              ELSE IF r.notify
              THEN \E ok \in BOOLEAN :
                      /\ RcvSend(PMError(ErrorText(r.err)), ok, "request_file", r.err, Len(rcvGot) + 1)
                      /\ ReqBail(AfterNotify(r.err, ok))
                      /\ fault' = (fault \/ ~ok)
              ELSE /\ ReqBail(r.err)
                   /\ UNCHANGED <<rcvSent, toSnd, fault>>
    /\ UNCHANGED <<req, op, opResult, rcvConnects, rcvCloses, recvExpected, sndVars, fnVars>>

\* The first receive: decode, match, and on an unexpected message notify the
\* peer (best effort) before the error is returned.
ReqRecvTransit ==
    /\ rpc = "recv_transit"
    /\ toRcv # <<>>
    /\ LET m == Decode(Head(toRcv))
           r == MatchTransit(m)
       IN  /\ toRcv' = Tail(toRcv)
           /\ rcvGot' = Append(rcvGot, m)
           /\ IF m = DecodeError
              THEN /\ ReqBail(FromJsonError)
                   /\ UNCHANGED <<rcvSent, toSnd, fault>>
              ELSE IF r.next = "continue"
              THEN /\ rpc' = "recv_offer"
                   /\ UNCHANGED <<reqResult, rcvSent, toSnd, fault>>
              ELSE IF r.notify
              THEN \E ok \in BOOLEAN :
                      /\ RcvSend(PMError(ErrorText(r.err)), ok, "request_file", r.err, Len(rcvGot) + 1)
                      /\ ReqBail(AfterNotify(r.err, ok))
                      /\ fault' = (fault \/ ~ok)
              ELSE /\ ReqBail(r.err)
                   /\ UNCHANGED <<rcvSent, toSnd, fault>>
    /\ UNCHANGED <<req, op, opResult, rcvConnects, rcvCloses, recvExpected, sndVars, fnVars>>

\* The second receive: decode, match the offer, build the ReceiveRequest.
ReqRecvOffer ==
    /\ rpc = "recv_offer"
    /\ toRcv # <<>>
    /\ LET m == Decode(Head(toRcv))
           r == MatchOffer(m)
       IN  /\ toRcv' = Tail(toRcv)
           /\ rcvGot' = Append(rcvGot, m)
           /\ IF m = DecodeError
              THEN /\ ReqBail(FromJsonError)
                   /\ UNCHANGED <<req, rcvSent, toSnd, fault>>
              ELSE IF r.next = "continue"
              THEN /\ req' = r.fields
                   /\ reqResult' = OkResult
                   /\ rpc' = "pending"
                   /\ UNCHANGED <<rcvSent, toSnd, fault>>
              ELSE IF r.notify
              THEN \E ok \in BOOLEAN :
                      /\ RcvSend(PMError(ErrorText(r.err)), ok, "request_file", r.err, Len(rcvGot) + 1)
                      /\ ReqBail(AfterNotify(r.err, ok))
                      /\ fault' = (fault \/ ~ok)
                      /\ UNCHANGED req
              ELSE /\ ReqBail(r.err)
                   /\ UNCHANGED <<req, rcvSent, toSnd, fault>>
    /\ UNCHANGED <<op, opResult, rcvConnects, rcvCloses, recvExpected, sndVars, fnVars>>

\* ------------------------------------------------- receiver: accept, reject
\* The outcomes of v1::tcp_file_receive: success, a TransitError, or another
\* TransferError of the bulk transfer (a checksum mismatch).
TransferOutcomes == {"Ok", "Transit", "Checksum"}

\* A slip in accept(): the result of sending the ack is dropped and accept
\* goes on to connect.
AcceptSendAckIgnoringFailure ==
    /\ rpc = "pending"
    /\ op' = "accept"
    /\ \E ok \in BOOLEAN :
        /\ RcvSend(AcceptAck, ok, "accept", NoResult, Len(rcvGot))
        /\ rpc' = "acc_connect"
        /\ fault' = (fault \/ ~ok)
    /\ UNCHANGED <<reqResult, req, opResult, rcvGot, rcvConnects, rcvCloses,
                   recvExpected, toRcv, sndVars, fnVars>>

\* accept: self.wormhole.send_json(&PeerMessage::file_ack("ok")).await?
AcceptSendAck ==
    /\ rpc = "pending"
    /\ op' = "accept"
    /\ \E ok \in BOOLEAN :
        /\ RcvSend(AcceptAck, ok, "accept", NoResult, Len(rcvGot))
        /\ IF ok THEN rpc' = "acc_connect" /\ opResult' = opResult
                 ELSE OpReturn(FromWormholeError)
        /\ fault' = (fault \/ ~ok)
    /\ UNCHANGED <<reqResult, req, rcvGot, rcvConnects, rcvCloses, recvExpected,
                   toRcv, sndVars, fnVars>>

\* A slip in accept(): after notifying the peer of a failed connect, accept
\* carries on with the transfer instead of returning.
AcceptConnectContinuing ==
    /\ rpc = "acc_connect"
    /\ rcvConnects' = rcvConnects + 1
    /\ rpc' = "acc_transfer"
    /\ \/ UNCHANGED <<rcvSent, toSnd, fault>>
       \/ \E ok \in BOOLEAN :
            LET error == Err("TransitConnect", "")
            IN  /\ RcvSend(PMError(ErrorText(error)), ok, "accept", error, Len(rcvGot))
                /\ fault' = TRUE
    /\ UNCHANGED <<reqResult, req, op, opResult, rcvGot, rcvCloses, recvExpected,
                   toRcv, sndVars, fnVars>>

\* A slip in accept(): a failed connect is returned without telling the peer.
AcceptConnectSilent ==
    /\ rpc = "acc_connect"
    /\ rcvConnects' = rcvConnects + 1
    /\ \/ /\ rpc' = "acc_transfer"
          /\ UNCHANGED <<opResult, fault>>
       \/ /\ OpReturn(Err("TransitConnect", ""))
          /\ fault' = TRUE
    /\ UNCHANGED <<reqResult, req, op, rcvSent, rcvGot, rcvCloses, recvExpected,
                   toRcv, toSnd, sndVars, fnVars>>

\* accept: connector.follower_connect(key, their_abilities, their_hints); a
\* failure is notified to the peer and returned as TransitConnect.
AcceptConnect ==
    /\ rpc = "acc_connect"
    /\ rcvConnects' = rcvConnects + 1
    /\ \/ /\ rpc' = "acc_transfer"
          /\ UNCHANGED <<opResult, rcvSent, toSnd, fault>>
       \/ \E ok \in BOOLEAN :
            LET error == Err("TransitConnect", "")
            IN  /\ RcvSend(PMError(ErrorText(error)), ok, "accept", error, Len(rcvGot))
                /\ OpReturn(AfterNotify(error, ok))
                /\ fault' = TRUE
    /\ UNCHANGED <<reqResult, req, op, rcvGot, rcvCloses, recvExpected, toRcv, sndVars, fnVars>>

\* A slip in accept(): the channel is closed before a failed transfer is
\* returned.
AcceptTransferClosing ==
    /\ rpc = "acc_transfer"
    /\ recvExpected' = Append(recvExpected, req.filesize)
    /\ \E out \in TransferOutcomes :
        CASE out = "Ok" ->
                /\ rpc' = "acc_close"
                /\ UNCHANGED <<opResult, rcvSent, rcvCloses, toSnd, fault>>
          [] out = "Transit" ->
                \E ok \in BOOLEAN :
                    LET error == Err("Transit", "")
                    IN  /\ RcvSend(PMError(ErrorText(error)), ok, "accept", error, Len(rcvGot))
                        /\ OpReturn(AfterNotify(error, ok))
                        /\ rcvCloses' = Append(rcvCloses, TRUE)
                        /\ fault' = TRUE
          [] OTHER ->
                /\ OpReturn(Err(out, ""))
                /\ rcvCloses' = Append(rcvCloses, TRUE)
                /\ fault' = TRUE
                /\ UNCHANGED <<rcvSent, toSnd>>
    /\ UNCHANGED <<reqResult, req, op, rcvGot, rcvConnects, toRcv, sndVars, fnVars>>

\* A slip in accept(): a Transit failure of the transfer is returned like any
\* other error, without telling the peer.
AcceptTransferSilent ==
    /\ rpc = "acc_transfer"
    /\ recvExpected' = Append(recvExpected, req.filesize)
    /\ \E out \in TransferOutcomes :
        IF out = "Ok"
        THEN /\ rpc' = "acc_close"
             /\ UNCHANGED <<opResult, fault>>
        ELSE /\ OpReturn(Err(out, ""))
             /\ fault' = TRUE
    /\ UNCHANGED <<reqResult, req, op, rcvSent, rcvGot, rcvConnects, rcvCloses,
                   toRcv, toSnd, sndVars, fnVars>>

\* accept: v1::tcp_file_receive(&mut transit, self.filesize, ..); a Transit
\* error is notified to the peer, any error is returned.
AcceptTransfer ==
    /\ rpc = "acc_transfer"
    /\ recvExpected' = Append(recvExpected, req.filesize)
    /\ \E out \in TransferOutcomes :
        CASE out = "Ok" ->
                /\ rpc' = "acc_close"
                /\ UNCHANGED <<opResult, rcvSent, toSnd, fault>>
          [] out = "Transit" ->
                \E ok \in BOOLEAN :
                    LET error == Err("Transit", "")
                    IN  /\ RcvSend(PMError(ErrorText(error)), ok, "accept", error, Len(rcvGot))
                        /\ OpReturn(AfterNotify(error, ok))
                        /\ fault' = TRUE
          [] OTHER ->
                /\ OpReturn(Err(out, ""))
                /\ fault' = TRUE
                /\ UNCHANGED <<rcvSent, toSnd>>
    /\ UNCHANGED <<reqResult, req, op, rcvGot, rcvConnects, rcvCloses, toRcv, sndVars, fnVars>>

\* self.wormhole.close().await?; Ok(()) -- the last step of accept and reject.
RcvClose ==
    /\ rpc \in {"acc_close", "rej_close"}
    /\ \E ok \in BOOLEAN :
        /\ rcvCloses' = Append(rcvCloses, ok)
        /\ OpReturn(IF ok THEN OkResult ELSE FromWormholeError)
        /\ fault' = (fault \/ ~ok)
    /\ UNCHANGED <<reqResult, req, op, rcvSent, rcvGot, rcvConnects, recvExpected,
                   toRcv, toSnd, sndVars, fnVars>>

\* A slip in reject(): the Error is sent and the channel is left open.
RejectSendNoClose ==
    /\ rpc = "pending"
    /\ op' = "reject"
    /\ \E ok \in BOOLEAN :
        /\ RcvSend(PMError("transfer rejected"), ok, "reject", NoResult, Len(rcvGot))
        /\ OpReturn(IF ok THEN OkResult ELSE FromWormholeError)
        /\ fault' = (fault \/ ~ok)
    /\ UNCHANGED <<reqResult, req, rcvGot, rcvConnects, rcvCloses, recvExpected,
                   toRcv, sndVars, fnVars>>

\* reject: self.wormhole.send_json(&PeerMessage::error_message(..)).await?
RejectSend ==
    /\ rpc = "pending"
    /\ op' = "reject"
    /\ \E ok \in BOOLEAN :
        /\ RcvSend(PMError(RejectReason), ok, "reject", NoResult, Len(rcvGot))
        /\ IF ok THEN rpc' = "rej_close" /\ opResult' = opResult
                 ELSE OpReturn(FromWormholeError)
        /\ fault' = (fault \/ ~ok)
    /\ UNCHANGED <<reqResult, req, rcvGot, rcvConnects, rcvCloses, recvExpected,
                   toRcv, sndVars, fnVars>>

Receiver ==
    \/ ReqInit
    \/ ReqSendTransit
    \/ ReqReceiveFails
    \/ ReqRecvTransit
    \/ ReqRecvOffer
    \/ AcceptSendAck
    \/ AcceptConnect
    \/ AcceptTransfer
    \/ RejectSend
    \/ RcvClose

\* ------------------------------------------------------- an arbitrary peer
\* The peer puts any text on the channel while the receiver waits for one.
PeerSend ==
    /\ rpc \in {"recv_transit", "recv_offer"}
    /\ toRcv = <<>>
    /\ \E w \in WireMsgs : toRcv' = Append(toRcv, w)
    /\ UNCHANGED <<rcvVars, sndVars, toSnd, fault, fnVars>>

Next == Receiver \/ PeerSend

Spec == Init /\ [][Next]_vars

\* ------------------------------------------------------------- the sender
\* The sender state machine: open transit, exchange transit hints, send the
\* offer, await the ack, connect as leader, run the bulk transfer, close.
\* A local failure after the first step is notified to the peer (best
\* effort) before it is returned; a peer-reported Error is not.
SndSendMsg(m, ok) ==
    /\ sndSent' = Append(sndSent, [msg |-> m, ok |-> ok])
    /\ toRcv' = IF ok THEN Append(toRcv, Encode(m)) ELSE toRcv

\* The sender's call returns the local error e after the notification.
SndFailNotified(e) ==
    /\ \E nok \in BOOLEAN :
        /\ sndSent' = Append(sndSent, [msg |-> PMError(ErrorText(e)), ok |-> nok])
        /\ toRcv' = IF nok THEN Append(toRcv, Encode(PMError(ErrorText(e)))) ELSE toRcv
    /\ sndResult' = e
    /\ spc' = "done"

\* The match on the reply the sender awaits at a step: the expected kind goes
\* on, the peer's Error is surfaced as PeerError, anything else is unexpected.
SndMatch(m, kind, expected) ==
    CASE m.kind = kind -> [next |-> "continue", err |-> NoResult, notify |-> FALSE]
      [] m.kind = "Error" ->
            [next |-> "bail", err |-> Err("PeerError", m.text), notify |-> FALSE]
      [] m.kind = "DecodeError" ->
            [next |-> "bail", err |-> FromJsonError, notify |-> TRUE]
      [] OTHER ->
            [next |-> "bail", err |-> UnexpectedMessage(expected), notify |-> TRUE]

SndInit ==
    /\ spc = "init"
    /\ \E ok \in BOOLEAN :
        /\ IF ok THEN spc' = "send_transit" /\ sndResult' = sndResult
                 ELSE spc' = "done" /\ sndResult' = Err("IO", "")
        /\ fault' = (fault \/ ~ok)
    /\ UNCHANGED <<rcvVars, fnVars, sndOffer, sndSent, sndGot, sndConnects, sndCloses,
                   toRcv, toSnd>>

\* Steps 2 and 3: one send of the Transit message, then of the Offer.
SndSend ==
    /\ spc \in {"send_transit", "send_offer"}
    /\ \E offer \in SenderOffers :
        LET m == IF spc = "send_transit" THEN PMTransit ELSE offer
        IN  /\ sndOffer' = IF spc = "send_transit" THEN sndOffer ELSE offer
            /\ \/ /\ SndSendMsg(m, TRUE)
                  /\ spc' = IF spc = "send_transit" THEN "recv_transit" ELSE "recv_answer"
                  /\ UNCHANGED <<sndResult, fault>>
               \/ /\ SndFailNotified(FromWormholeError)
                  /\ fault' = TRUE
    /\ UNCHANGED <<rcvVars, fnVars, sndGot, sndConnects, sndCloses, toSnd>>

\* A receive of the sender fails.
SndReceiveFails ==
    /\ spc \in {"recv_transit", "recv_answer"}
    /\ SndFailNotified(FromWormholeError)
    /\ fault' = TRUE
    /\ UNCHANGED <<rcvVars, fnVars, sndOffer, sndGot, sndConnects, sndCloses, toSnd>>

\* The receives: the peer's Transit, and step 4, exactly one reply to the offer.
SndRecv ==
    /\ spc \in {"recv_transit", "recv_answer"}
    /\ toSnd # <<>>
    /\ LET m == Decode(Head(toSnd))
           r == IF spc = "recv_transit" THEN SndMatch(m, "Transit", "transit")
                                        ELSE SndMatch(m, "Answer", "answer")
       IN  /\ toSnd' = Tail(toSnd)
           /\ sndGot' = Append(sndGot, [at |-> spc, msg |-> m])
           /\ IF r.next = "continue"
              THEN /\ spc' = IF spc = "recv_transit" THEN "send_offer" ELSE "connect"
                   /\ UNCHANGED <<sndResult, sndSent, toRcv>>
              ELSE IF r.notify
              THEN SndFailNotified(r.err)
              ELSE /\ sndResult' = r.err
                   /\ spc' = "done"
                   /\ UNCHANGED <<sndSent, toRcv>>
    /\ UNCHANGED <<rcvVars, fnVars, sndOffer, sndConnects, sndCloses, fault>>

\* Step 5: upgrade the connector to a connected channel, leader role.
SndConnect ==
    /\ spc = "connect"
    /\ sndConnects' = sndConnects + 1
    /\ \/ /\ spc' = "transfer"
          /\ UNCHANGED <<sndResult, sndSent, toRcv, fault>>
       \/ /\ SndFailNotified(Err("TransitConnect", ""))
          /\ fault' = TRUE
    /\ UNCHANGED <<rcvVars, fnVars, sndOffer, sndGot, sndCloses, toSnd>>

\* Step 6: the bulk-transfer delegate streams the data.
SndTransfer ==
    /\ spc = "transfer"
    /\ \/ /\ spc' = "close"
          /\ UNCHANGED <<sndResult, sndSent, toRcv, fault>>
       \/ \E e \in {"Transit", "FileSize", "AckError"} :
            /\ SndFailNotified(Err(e, ""))
            /\ fault' = TRUE
    /\ UNCHANGED <<rcvVars, fnVars, sndOffer, sndGot, sndConnects, sndCloses, toSnd>>

\* Step 7: close the encrypted channel.
SndClose ==
    /\ spc = "close"
    /\ \E ok \in BOOLEAN :
        /\ sndCloses' = Append(sndCloses, ok)
        /\ sndResult' = IF ok THEN OkResult ELSE FromWormholeError
        /\ fault' = (fault \/ ~ok)
    /\ spc' = "done"
    /\ UNCHANGED <<rcvVars, fnVars, sndOffer, sndSent, sndGot, sndConnects, toRcv, toSnd>>

Sender ==
    \/ SndInit
    \/ SndSend
    \/ SndReceiveFails
    \/ SndRecv
    \/ SndConnect
    \/ SndTransfer
    \/ SndClose

PairNext == Receiver \/ Sender

\* The steps that the runtime takes by itself once they are enabled: every
\* await of either side returns.  Whether the caller ever consumes the
\* ReceiveRequest, and whether a call fails, is not the runtime's to promise.
ReceiverProgress ==
    \/ ReqInit
    \/ ReqSendTransit
    \/ ReqRecvTransit
    \/ ReqRecvOffer
    \/ AcceptConnect
    \/ AcceptTransfer
    \/ RcvClose

SenderProgress ==
    \/ SndInit
    \/ SndSend
    \/ SndRecv
    \/ SndConnect
    \/ SndTransfer
    \/ SndClose

PairSpec ==
    /\ Init
    /\ [][PairNext]_vars
    /\ WF_vars(ReceiverProgress)
    /\ WF_vars(SenderProgress)

\* ----------------------------------------- TransitAck and send_file alone
\* The calls of TransitAck::new, of its serialization and of send_file, for
\* every pair of strings and every advertised app version.
FnInit ==
    /\ TransferInit
    /\ ackArgs \in AckStrings \X AckStrings
    /\ ackRecord = NoAck
    /\ ackJson = <<>>
    /\ peerVersion \in PeerVersions
    /\ sendFileOut = NoCall

AckNew ==
    /\ ackRecord = NoAck
    /\ ackRecord' = TransitAckNew(ackArgs[1], ackArgs[2])
    /\ UNCHANGED <<rcvVars, sndVars, toRcv, toSnd, fault, ackArgs, ackJson,
                   peerVersion, sendFileOut>>

AckSerialize ==
    /\ ackRecord # NoAck
    /\ ackJson = <<>>
    /\ ackJson' = TransitAckSerialize(ackRecord)
    /\ UNCHANGED <<rcvVars, sndVars, toRcv, toSnd, fault, ackArgs, ackRecord,
                   peerVersion, sendFileOut>>

SendFile ==
    /\ sendFileOut = NoCall
    /\ sendFileOut' = SendFileOut(peerVersion)
    /\ UNCHANGED <<rcvVars, sndVars, toRcv, toSnd, fault, ackArgs, ackRecord,
                   ackJson, peerVersion>>

FnNext == AckNew \/ AckSerialize \/ SendFile

FnSpec == FnInit /\ [][FnNext]_vars

\* -------------------------------------------------------------- properties
\* request_file has returned (a ReceiveRequest or an error).
ReqReturned == reqResult # NoResult

\* The receiver's send_json calls that carry an Error message.
RcvErrorSends == {i \in DOMAIN rcvSent : rcvSent[i].msg.kind = "Error"}

\* The two messages request_file received were a Transit, then an Offer.
TransitThenOffer ==
    /\ Len(rcvGot) = 2
    /\ rcvGot[1].kind = "Transit"
    /\ rcvGot[2].kind = "Offer"

\* The message request_file received last is of a variant that is neither the
\* one awaited at that step, nor the peer's Error, nor undecodable text.
LastUnexpected ==
    /\ rcvGot # <<>>
    /\ \/ Len(rcvGot) = 1 /\ rcvGot[1].kind \notin {"Transit", "Error", "DecodeError"}
       \/ Len(rcvGot) = 2 /\ rcvGot[2].kind \notin {"Offer", "Error", "DecodeError"}

\* C1 as stated: once request_file has returned on the messages it received
\* (not on a failure of the channel or of transit::init), it returned a
\* ReceiveRequest if and only if it received Transit then Offer, and in every
\* other case it returned UnexpectedMessage with an Error sent on the channel.
C1_Original ==
    (ReqReturned /\ rcvGot # <<>> /\ reqResult.kind \notin {"IO", "Wormhole"}) =>
        IF TransitThenOffer
        THEN reqResult = OkResult
        ELSE /\ reqResult.kind = "ProtocolUnexpectedMessage"
             /\ RcvErrorSends # {}

\* C1 amended: request_file returns a ReceiveRequest if and only if it received
\* a Transit message and then an Offer of variant File or Directory; when the
\* message received last is a decodable message of a variant other than the
\* awaited one and other than Error, it returns UnexpectedMessage and one Error
\* send by the receiver is observed on the channel.
C1_ReceiveRequestIff ==
    /\ (reqResult = OkResult) <=>
            (TransitThenOffer /\ rcvGot[2].offer \in {"File", "Directory"})
    /\ (ReqReturned /\ LastUnexpected) =>
            /\ reqResult.kind = "ProtocolUnexpectedMessage"
            /\ Cardinality(RcvErrorSends) = 1
            /\ \A i \in RcvErrorSends : rcvSent[i].msg.text = ErrorText(reqResult)

\* C1's case: a Transit arrived where the Offer was awaited.
C1_Witness ==
    /\ Len(rcvGot) = 2
    /\ rcvGot[2].kind = "Transit"
    /\ reqResult = UnexpectedMessage("offer")

\* The send_json calls made by reject().
RejectSends == {i \in DOMAIN rcvSent : rcvSent[i].by = "reject"}

RejectReturned == op = "reject" /\ rpc = "done"

\* C2 as stated: whatever the channel does, when reject() has returned it has
\* attempted no transit connection, sent exactly one Error message, with the
\* reason "transfer rejected", and closed the channel.
C2_Original ==
    RejectReturned =>
        /\ rcvConnects = 0
        /\ Cardinality(RcvErrorSends) = 1
        /\ \A i \in RcvErrorSends : rcvSent[i].msg = PMError("transfer rejected")
        /\ Len(rcvCloses) = 1

\* C2 amended: reject() never attempts a transit connection and makes exactly
\* one send, of Error("transfer rejected"); it closes the channel, once, exactly
\* when that send succeeded, and returns the channel error without closing
\* when the send failed.
C2_Reject ==
    /\ op = "reject" => rcvConnects = 0 /\ recvExpected = <<>>
    /\ RejectReturned =>
        /\ Cardinality(RejectSends) = 1
        /\ RcvErrorSends = RejectSends
        /\ \A i \in RejectSends :
            /\ rcvSent[i].msg = PMError("transfer rejected")
            /\ Len(rcvCloses) = (IF rcvSent[i].ok THEN 1 ELSE 0)
            /\ ~rcvSent[i].ok => opResult.kind = "Wormhole"

\* C2's case: reject() has sent its Error and closed the channel.
C2_Witness ==
    /\ RejectReturned
    /\ rcvCloses = <<TRUE>>
    /\ opResult = OkResult

\* Both calls returned success and each side closed the channel.
BothSucceeded ==
    /\ opResult = OkResult
    /\ sndResult = OkResult
    /\ rcvCloses = <<TRUE>>
    /\ sndCloses = <<TRUE>>

\* C3: the sender offered a file and the receiver, holding the ReceiveRequest,
\* called accept; then, under fair scheduling, unless some channel, transit or
\* bulk-transfer call fails, the sender's call and accept both eventually
\* return success with the channel closed on both ends.
C3_BothSucceed ==
    (op = "accept" /\ sndOffer.offer = "File") ~> (fault \/ BothSucceeded)

\* C3's case: a file offer was accepted and transferred with no failure.
C3_Witness ==
    /\ op = "accept"
    /\ sndOffer.offer = "File"
    /\ ~fault
    /\ BothSucceeded
    /\ recvExpected = <<sndOffer.size>>

\* The replies the sender received to its offer (at most one).
SndOfferReplies == {i \in DOMAIN sndGot : sndGot[i].at = "recv_answer"}

\* C4: when the reply the sender receives to its offer is Error(reason), its
\* call returns PeerError(reason) and it never attempts a transit connection;
\* against this receiver such a reply is the Error of reject(), and the reason
\* is "transfer rejected".
C4_PeerError ==
    \A i \in SndOfferReplies :
        sndGot[i].msg.kind = "Error" =>
            /\ sndResult = Err("PeerError", sndGot[i].msg.text)
            /\ sndConnects = 0
            /\ spc = "done"
            /\ op = "reject"
            /\ sndGot[i].msg.text = "transfer rejected"

\* C4's case: the sender got reject()'s Error in reply to its offer.
C4_Witness ==
    /\ op = "reject"
    /\ \E i \in SndOfferReplies : sndGot[i].msg.kind = "Error"
    /\ sndResult = Err("PeerError", "transfer rejected")

\* A call of the receiver returned a local error with the channel still
\* working: any error but the peer's (PeerError), the channel's own (Wormhole)
\* and the failure of transit::init before the first message (IO).
LocalError(r) == r.kind \notin {"None", "Ok", "PeerError", "Wormhole", "IO"}

\* C5: whenever request_file or accept returns a local error (here: one that
\* leaves the channel working), the receiver has attempted an Error
\* notification to the peer before returning.
C5_NotifyOnLocalError ==
    /\ LocalError(reqResult) =>
            \E i \in RcvErrorSends : rcvSent[i].by = "request_file"
    /\ (op = "accept" /\ LocalError(opResult)) =>
            \E i \in RcvErrorSends : rcvSent[i].by = "accept"

\* C6: when request_file receives Error(text), at the Transit step or at the
\* Offer step, it returns PeerError(text) with the peer's text, has sent no
\* Error message, and has produced no ReceiveRequest.
C6_PeerErrorSurfaced ==
    \A i \in DOMAIN rcvGot :
        rcvGot[i].kind = "Error" =>
            /\ reqResult = Err("PeerError", rcvGot[i].text)
            /\ RcvErrorSends = {}
            /\ req = NoFields
            /\ rpc = "done" /\ op = "none"

\* C6's case: the peer's Error arrived at the Offer step.
C6_Witness ==
    /\ Len(rcvGot) = 2
    /\ rcvGot[2] = PMError("peer gave up")
    /\ reqResult = Err("PeerError", "peer gave up")

\* The receiver's notifications: the sends that report one of its own errors.
Notifications == {i \in DOMAIN rcvSent : rcvSent[i].cause # NoResult}

\* C7: wherever the receiver has attempted a notification (for an unexpected
\* message, a failed transit connect or a Transit failure of the transfer), the
\* call returned the error it notified, whether or not that send succeeded.
C7_OriginalErrorKept ==
    \A i \in Notifications :
        /\ rcvSent[i].cause.kind \in {"ProtocolUnexpectedMessage", "TransitConnect", "Transit"}
        /\ rcvSent[i].msg = PMError(ErrorText(rcvSent[i].cause))
        /\ IF rcvSent[i].by = "request_file"
           THEN reqResult = rcvSent[i].cause
           ELSE opResult = rcvSent[i].cause

\* C7's case: the notification of a failed transit connect failed itself.
C7_Witness ==
    \E i \in Notifications :
        /\ ~rcvSent[i].ok
        /\ rcvSent[i].cause.kind = "TransitConnect"
        /\ opResult.kind = "TransitConnect"

\* C8: the ReceiveRequest of a Directory offer carries the offer's zipsize, that
\* of a File offer its filesize, and accept hands exactly that value to the
\* bulk-transfer delegate as the expected length.
C8_ArchivedSize ==
    /\ reqResult = OkResult =>
            /\ req.filesize = rcvGot[2].size
            /\ Len(recvExpected) <= 1
            /\ \A i \in DOMAIN recvExpected : recvExpected[i] = rcvGot[2].size
    /\ reqResult # OkResult => recvExpected = <<>>

\* C8's case: accept received a folder whose archive and original sizes differ.
C8_Witness ==
    /\ reqResult = OkResult
    /\ rcvGot[2].offer = "Directory"
    /\ rcvGot[2].numbytes # rcvGot[2].size
    /\ recvExpected = <<rcvGot[2].size>>

\* C9: the display name of the ReceiveRequest of every Directory offer has the
\* extension "zip".
C9_ZipName ==
    (reqResult = OkResult /\ rcvGot[2].offer = "Directory") =>
        Extension(req.filename) = ZipExt

\* C10: when a message request_file receives does not decode, request_file
\* returns ProtocolJson and produces no ReceiveRequest.
C10_DecodeError ==
    \A i \in DOMAIN rcvGot :
        rcvGot[i] = DecodeError =>
            /\ reqResult = Err("ProtocolJson", "")
            /\ req = NoFields
            /\ rpc = "done" /\ op = "none"

\* C10's case: undecodable text arrived at the Offer step.
C10_Witness ==
    /\ Len(rcvGot) = 2
    /\ rcvGot[2] = DecodeError
    /\ reqResult.kind = "ProtocolJson"

\* C11: for every pair of strings (a, s), TransitAck::new(a, s) serializes to
\* exactly two fields, "ack" then "sha256", holding a and s.
C11_AckShape ==
    ackJson # <<>> =>
        /\ Len(ackJson) = 2
        /\ ackJson[1] = <<"ack", ackArgs[1]>>
        /\ ackJson[2] = <<"sha256", ackArgs[2]>>

\* C11's case: the source's test, ("ok", "deadbeaf"), serialized.
C11_Witness ==
    /\ ackArgs = <<"ok", "deadbeaf">>
    /\ ackJson = << <<"ack", "ok">>, <<"sha256", "deadbeaf">> >>

\* The ack of accept() has been sent.
AckSent ==
    \E i \in DOMAIN rcvSent :
        rcvSent[i].by = "accept" /\ rcvSent[i].msg = PMFileAck("ok") /\ rcvSent[i].ok

\* The last send of the receiver is the notification of the error e.
LastSendNotifies(e) ==
    /\ rcvSent # <<>>
    /\ rcvSent[Len(rcvSent)].cause = e
    /\ rcvSent[Len(rcvSent)].msg = PMError(ErrorText(e))

\* C12: accept attempts the follower connect only when its ack (Answer "ok")
\* has been sent; when accept returns TransitConnect, the failure was notified
\* to the peer with an Error message and no bulk transfer was started.
C12_AckBeforeConnect ==
    /\ [](/\ rcvConnects > 0 => AckSent
          /\ opResult.kind = "TransitConnect" =>
                /\ rcvConnects = 1
                /\ LastSendNotifies(Err("TransitConnect", ""))
                /\ recvExpected = <<>>
                /\ rcvCloses = <<>>
                /\ rpc = "done")
    /\ [][rcvConnects' # rcvConnects => AckSent]_vars

\* C12's case: the connect failed after the ack, and the peer was told.
C12_Witness ==
    /\ opResult.kind = "TransitConnect"
    /\ AckSent
    /\ rcvSent[Len(rcvSent)].ok

\* C13: when accept returns a Transit error of the bulk transfer, an Error
\* message reporting it was sent to the peer before; and accept calls close
\* only when the bulk transfer has run and completed without error.
C13_TransitNotified ==
    /\ [](/\ opResult.kind = "Transit" =>
                /\ op = "accept"
                /\ LastSendNotifies(Err("Transit", ""))
                /\ Len(recvExpected) = 1
                /\ rcvCloses = <<>>
          /\ (op = "accept" /\ rcvCloses # <<>>) =>
                /\ Len(recvExpected) = 1
                /\ opResult.kind \in {"Ok", "Wormhole"}
                /\ Notifications = {})
    /\ [][(op = "accept" /\ rcvCloses' # rcvCloses) =>
                (rpc = "acc_close" /\ Len(recvExpected) = 1)]_vars

\* C13's case: the transfer failed with a Transit error and the peer was told.
C13_Witness ==
    /\ opResult.kind = "Transit"
    /\ LastSendNotifies(Err("Transit", ""))
    /\ rcvSent[Len(rcvSent)].ok

\* The sends the receiver made when it had received k messages.
SendsAfter(k) == {i \in DOMAIN rcvSent : rcvSent[i].seen = k}

\* The sends request_file made when it had received k messages.
ReqSendsAfter(k) == {i \in SendsAfter(k) : rcvSent[i].by = "request_file"}

\* C14 as stated: at each step of the negotiation the receiver sends at most
\* one message, and it never performs two consecutive receives: between a
\* receive and the next one there is a send.
C14_Original ==
    /\ \A k \in 0..2 : Cardinality(ReqSendsAfter(k)) <= 1
    /\ \A k \in 2..Len(rcvGot) : SendsAfter(k - 1) # {}

\* C14 amended: the negotiation is in order but not strictly request/response.
\* The receiver sends exactly one message, its Transit, before its first
\* receive and at most one message at each step of request_file; it receives
\* at most two messages, and the two receives are consecutive: no send lies
\* between them.  The only send that follows the first receive in
\* request_file is the Error notification it aborts with.
C14_InOrder ==
    /\ Len(rcvGot) <= 2
    /\ \A k \in 0..2 : Cardinality(ReqSendsAfter(k)) <= 1
    /\ rcvGot # <<>> =>
            /\ SendsAfter(0) = {1}
            /\ rcvSent[1].msg = PMTransit /\ rcvSent[1].ok
    /\ Len(rcvGot) = 2 => SendsAfter(1) = {}
    /\ \A i \in SendsAfter(1) :
            /\ rcvSent[i].cause = UnexpectedMessage("transit")
            /\ reqResult = rcvSent[i].cause
            /\ rpc = "done"

\* C14's case: the peer's Transit and Offer were received one after the other.
C14_Witness ==
    /\ Len(rcvGot) = 2
    /\ reqResult = OkResult
    /\ Len(rcvSent) = 1

\* C15: when the second message request_file receives is an Offer of a variant
\* other than File and Directory, it returns UnsupportedOffer, produces no
\* ReceiveRequest and sends no Error notification.
C15_UnsupportedOffer ==
    (Len(rcvGot) = 2 /\ rcvGot[2].kind = "Offer"
        /\ rcvGot[2].offer \notin {"File", "Directory"}) =>
            /\ reqResult = Err("UnsupportedOffer", "")
            /\ req = NoFields
            /\ rpc = "done" /\ op = "none"
            /\ RcvErrorSends = {}
            /\ Len(rcvSent) = 1

\* C15's case: an offer of another variant arrived after the Transit.
C15_Witness ==
    /\ Len(rcvGot) = 2
    /\ rcvGot[1].kind = "Transit"
    /\ rcvGot[2].kind = "Offer" /\ rcvGot[2].offer = "Unknown"
    /\ reqResult.kind = "UnsupportedOffer"

\* send_file has been called and has returned or handed over.
SendFileCalled == sendFileOut # NoCall

\* C16 as stated: for every peer app version send_file delegates to the v1
\* sender and supports_v2 is false.
C16_Original ==
    SendFileCalled =>
        /\ sendFileOut.delegate = "v1::send_file"
        /\ ~sendFileOut.v2

\* C16: send_file never selects v2; for every peer app version that is a JSON
\* object, whatever fields it carries, or an empty array, it delegates to the
\* v1 sender with supports_v2 false; for any other value it returns
\* ProtocolJson without delegating.
C16_V1Only ==
    SendFileCalled =>
        /\ ~sendFileOut.v2
        /\ sendFileOut.delegate \in {"v1::send_file", "none"}
        /\ (peerVersion.shape = "object"
                \/ (peerVersion.shape = "array" /\ peerVersion.len = 0)) =>
                /\ sendFileOut.delegate = "v1::send_file"
                /\ sendFileOut.result = NoResult
        /\ (peerVersion.shape \in {"null", "string", "number", "bool"}
                \/ (peerVersion.shape = "array" /\ peerVersion.len > 0)) =>
                /\ sendFileOut.delegate = "none"
                /\ sendFileOut.result = Err("ProtocolJson", "")

\* C16's case: the peer advertises the v2 capability fields and send_file
\* still hands over to the v1 sender.
C16_Witness ==
    /\ peerVersion = JsonObject(VersionKeys)
    /\ sendFileOut.delegate = "v1::send_file"
    /\ ~sendFileOut.v2

\* C17: over a receiver session the receiver sends at most one Error message,
\* and the Error message is the last message it sends: once it is sent, the
\* receiver is at no step that sends again.
C17_OneErrorLast ==
    /\ Cardinality(RcvErrorSends) <= 1
    /\ \A i \in RcvErrorSends :
            /\ i = Len(rcvSent)
            /\ rpc \in {"done", "rej_close"}

\* C17's case: accept has notified the peer of a failure after the Transit
\* and the ack had been sent.
C17_Witness ==
    /\ Len(rcvSent) = 3
    /\ RcvErrorSends = {3}
    /\ rcvSent[3].by = "accept"
    /\ opResult.kind = "Transit"

\* A result that is an error return.
IsError(r) == r \notin {NoResult, OkResult}

\* close was reached on a success path: accept's bulk transfer was started and
\* no failure was notified, or reject's Error message was sent.
OnSuccessPath ==
    \/ /\ op = "accept"
       /\ Len(recvExpected) = 1
       /\ RcvErrorSends = {}
       /\ opResult \in {NoResult, OkResult, FromWormholeError}
    \/ /\ op = "reject"
       /\ \E i \in RejectSends : rcvSent[i].ok /\ rcvSent[i].msg.kind = "Error"

\* C18 as stated: close is called at most once and only on a success path;
\* every error return happens without close having been called; success is
\* returned only if close succeeded.
C18_Original ==
    /\ Len(rcvCloses) <= 1
    /\ rcvCloses # <<>> => OnSuccessPath
    /\ (IsError(reqResult) \/ IsError(opResult)) => rcvCloses = <<>>
    /\ opResult = OkResult => rcvCloses = <<TRUE>>

\* C18: close is called at most once and only on a success path; an error
\* return of request_file happens without close having been called, and an
\* error return of accept or reject happens either without close having been
\* called or because close itself failed, in which case it is the channel
\* error; success is returned only if close succeeded.
C18_CloseOnSuccessPath ==
    /\ Len(rcvCloses) <= 1
    /\ rcvCloses # <<>> => OnSuccessPath
    /\ IsError(reqResult) => rcvCloses = <<>>
    /\ IsError(opResult) => rcvCloses \in {<<>>, <<FALSE>>}
    /\ rcvCloses = <<FALSE>> => opResult = FromWormholeError
    /\ rcvCloses = <<TRUE>> => opResult = OkResult
    /\ opResult = OkResult => rcvCloses = <<TRUE>>

\* C18's case: accept's transfer succeeded, close was called and failed, and
\* accept returned the channel error.
C18_Witness ==
    /\ op = "accept"
    /\ Len(recvExpected) = 1
    /\ rcvCloses = <<FALSE>>
    /\ opResult = FromWormholeError

\* The receiver's sends of its own Transit message.
TransitSends == {i \in DOMAIN rcvSent : rcvSent[i].msg.kind = "Transit"}

\* The receiver's sends of the ack (an Answer), successful or not.
AckSends == {i \in DOMAIN rcvSent : rcvSent[i].msg.kind = "Answer"}

\* C19 as stated: once request_file is past its send step, the receiver has
\* sent its own Transit exactly once, before any receive; the ack and the
\* connection attempt come only after a Transit and a File or Directory Offer.
C19_Original ==
    /\ rpc \notin {"init", "send_transit"} =>
            /\ Cardinality(TransitSends) = 1
            /\ \A i \in TransitSends : rcvSent[i].seen = 0
    /\ (AckSends # {} \/ rcvConnects > 0) =>
            /\ TransitThenOffer
            /\ rcvGot[2].offer \in {"File", "Directory"}
    /\ op = "none" => rcvConnects = 0 /\ AckSends = {}

\* C19: the receiver sends its own Transit at most once, first and before
\* anything is received, and exactly once unless transit::init failed, in which
\* case request_file returned the IO error with nothing sent or received;
\* the ack is sent and a transit connection attempted only by accept and only
\* after a Transit followed by a File or Directory Offer was received;
\* request_file sends no ack and, while it runs, no connection is attempted.
C19_Order ==
    /\ Cardinality(TransitSends) <= 1
    /\ \A i \in TransitSends :
            /\ i = 1
            /\ rcvSent[i].seen = 0
            /\ rcvSent[i].by = "request_file"
    /\ rcvGot # <<>> => TransitSends = {1} /\ rcvSent[1].ok
    /\ rpc \notin {"init", "send_transit"} =>
            \/ TransitSends = {1}
            \/ /\ reqResult = Err("IO", "")
               /\ rcvSent = <<>> /\ rcvGot = <<>>
    /\ (AckSends # {} \/ rcvConnects > 0) =>
            /\ TransitThenOffer
            /\ rcvGot[2].offer \in {"File", "Directory"}
            /\ reqResult = OkResult
            /\ op = "accept"
    /\ \A i \in AckSends :
            /\ rcvSent[i].by = "accept"
            /\ rcvSent[i].seen = 2
    /\ rcvConnects > 0 => AckSent
    /\ op = "none" => rcvConnects = 0 /\ AckSends = {}

\* C19's case: the Transit was sent first, a Transit and a Directory Offer
\* were received, then the ack was sent and a connection attempted.
C19_Witness ==
    /\ TransitSends = {1}
    /\ Len(rcvGot) = 2
    /\ rcvGot[2].kind = "Offer" /\ rcvGot[2].offer = "Directory"
    /\ AckSends = {2}
    /\ rcvConnects = 1

\* accept's send of the ack failed.
AckSendFailed ==
    \E i \in AckSends : rcvSent[i].by = "accept" /\ ~rcvSent[i].ok

\* C20: if sending the ack in accept fails, accept returns the channel error
\* at once: no transit connection is attempted, no bulk transfer is started,
\* no Error notification is sent and the channel is not closed.
C20_AckFailure ==
    AckSendFailed =>
        /\ opResult = FromWormholeError
        /\ rpc = "done"
        /\ rcvConnects = 0
        /\ recvExpected = <<>>
        /\ RcvErrorSends = {}
        /\ rcvCloses = <<>>
        /\ AckSends = {Len(rcvSent)}

\* C20's case: accept was called on a ReceiveRequest and its ack could not be
\* sent.
C20_Witness ==
    /\ op = "accept"
    /\ reqResult = OkResult
    /\ AckSendFailed
    /\ opResult.kind = "Wormhole"
====
